---- MODULE Spec2Model ----
(***************************************************************************)
(* Newton's Lens analysis pipeline (backend/ai_analyzer.py).               *)
(*                                                                         *)
(* ExperimentAnalyzer is modelled as a state machine: the state is the     *)
(* analyzer's mode (use_ai), the number of model invocations made so far   *)
(* and the inputs, model request and reply and outcome of the latest       *)
(* analyze_image call.  A call is one step, unless it reaches the blocking *)
(* call of the generative model: then it waits there and a second step,    *)
(* the model's reply, finishes it.  The helpers of the class are operators *)
(* computed as the code computes them.                                     *)
(*                                                                         *)
(* Spec is the analyzer called directly (as test_analyzer.py calls it).    *)
(* ApiSpec is the analyzer behind analyze_experiment of backend/app.py,    *)
(* with the Database of backend/database.py: the state has in addition the *)
(* body of the latest request, the Database calls made for it and the      *)
(* response.                                                               *)
(*                                                                         *)
(* Values.  A Python/JSON value is a tagged pair <<tag, value>>:           *)
(*   "str" a string, "num" a number, "arr" a list, "obj" a dict (a         *)
(*   function from key strings to values), "null" None.                    *)
(* Numbers are fixed-point with two decimals, held as the value times 100, *)
(* so 0.85 is JNum(85) and the integer 1 is Whole(1) = JNum(100).            *)
(***************************************************************************)
EXTENDS Integers, Sequences, FiniteSets, TLC

VARIABLES
    use_ai,          \* self.use_ai, set by __init__
    pc,              \* "idle", or "waiting" inside self.model.generate_content
    invocations,     \* calls of self.model.generate_content made so far
    experiment_type, \* argument of the latest analyze_image call
    image_data,      \* argument of the latest analyze_image call
    previous_image,  \* image_data of the call before the latest
    request,         \* what the latest call sent to generate_content
    reply,           \* what generate_content did in the latest call
    outcome,         \* how the latest analyze_image call ended
    data,            \* request.get_json() of the latest request to /api/analyze
    db_log,          \* the calls of the Database made for the latest request
    response         \* the response to the latest request to /api/analyze

analyzer_vars == <<use_ai, pc, invocations, experiment_type, image_data, previous_image,
                   request, reply, outcome>>
api_vars == <<data, db_log, response>>
vars == <<analyzer_vars, api_vars>>

----------------------------------------------------------------------------
(* Python / JSON values *)

JStr(s) == <<"str", s>>
JNum(n) == <<"num", n>>
JArr(a) == <<"arr", a>>
JObj(f) == <<"obj", f>>
JNull == <<"null", 0>>

TagOf(x) == x[1]
ValOf(x) == x[2]

Whole(n) == JNum(n * 100)

EmptyMap == [k \in {} |-> JNull]
StrList(s) == JArr([i \in 1..Len(s) |-> JStr(s[i])])

----------------------------------------------------------------------------
(* _mock_analysis: the canned result per experiment type.  The texts are   *)
(* the source's (the ohm sign is spelled out).                             *)

Component(type, properties, position, connections) ==
    JObj([type |-> JStr(type), properties |-> JObj(properties),
          position |-> JStr(position), connections |-> StrList(connections)])

Warning(severity, message, recommendation) ==
    JObj([severity |-> JStr(severity), message |-> JStr(message),
          recommendation |-> JStr(recommendation)])

\* as Step, numbering from 0
Step_zero_based(step, instruction) ==
    JObj([step |-> Whole(step - 1), instruction |-> JStr(instruction)])

Step(step, instruction) ==
    JObj([step |-> Whole(step), instruction |-> JStr(instruction)])

Analysis(observations, components, predicted_outcome, safety_warnings, guidance, confidence_score) ==
    JObj([observations |-> JStr(observations),
          components |-> JArr(components),
          predicted_outcome |-> JStr(predicted_outcome),
          safety_warnings |-> JArr(safety_warnings),
          guidance |-> JArr(guidance),
          confidence_score |-> JNum(confidence_score)])

mock_circuits ==
    Analysis(
        "I can see a basic electrical circuit with a battery, LED, and wires. The LED appears to be connected directly to the battery without a current-limiting resistor.",
        << Component("LED", [color |-> JStr("red"), voltage |-> JStr("2V")],
                     "center of breadboard", <<"9V battery positive">>),
           Component("9V Battery", [voltage |-> JStr("9V")],
                     "left side", <<"LED", "ground wire">>) >>,
        "The LED will initially light up very brightly but will likely burn out within seconds due to excessive current. A 9V battery connected directly to an LED designed for 2-3V will cause permanent damage.",
        << Warning("high", "LED connected without current-limiting resistor",
                   "Add a 470 Ohm to 1 kOhm resistor in series with the LED to limit current to safe levels (10-20mA)."),
           Warning("medium", "Voltage mismatch detected",
                   "Use a lower voltage battery (3V) or add voltage regulation.") >>,
        << Step(1, "Disconnect the LED from the battery immediately"),
           Step(2, "Calculate required resistor: R = (V_battery - V_led) / I_desired = (9V - 2V) / 0.02A = 350 Ohm"),
           Step(3, "Use a 470 Ohm resistor (standard value) in series with the LED"),
           Step(4, "Connect resistor to LED anode (longer leg)"),
           Step(5, "Connect LED cathode (shorter leg) to battery negative"),
           Step(6, "Connect resistor other end to battery positive"),
           Step(7, "Verify LED lights up at safe brightness level") >>,
        85)

mock_chemistry ==
    Analysis(
        "I can see laboratory glassware including beakers and what appears to be chemicals. Safety equipment is present.",
        << Component("Beaker", [volume |-> JStr("250ml")], "center of workspace", <<>>),
           Component("Chemical reagents", EmptyMap, "right side", <<>>) >>,
        "When these chemicals are mixed, a reaction will occur. The exact outcome depends on the specific chemicals being used.",
        << Warning("high", "Always wear safety goggles and gloves when handling chemicals",
                   "Put on appropriate personal protective equipment before proceeding."),
           Warning("medium", "Ensure proper ventilation",
                   "Conduct experiment in a well-ventilated area or fume hood.") >>,
        << Step(1, "Put on safety goggles and lab gloves"),
           Step(2, "Verify all chemicals are properly labeled"),
           Step(3, "Add chemicals slowly while stirring"),
           Step(4, "Monitor for any unexpected reactions or heat generation"),
           Step(5, "Dispose of chemicals properly according to lab protocols") >>,
        75)

mock_physics ==
    Analysis(
        "I can see a mechanical setup with what appears to be a ramp and objects for motion experiments.",
        << Component("Inclined plane", [angle |-> JStr("30 degrees")], "center", <<>>),
           Component("Rolling object", [shape |-> JStr("sphere")], "top of ramp", <<>>) >>,
        "The object will roll down the inclined plane, accelerating due to gravity. The final velocity will depend on the height and friction coefficient.",
        << Warning("low", "Ensure the ramp is stable and won't tip over",
                   "Secure the base of the ramp to prevent movement during the experiment.") >>,
        << Step(1, "Measure and record the ramp angle"),
           Step(2, "Mark starting and ending positions"),
           Step(3, "Release the object gently from the starting position"),
           Step(4, "Time the descent with a stopwatch"),
           Step(5, "Calculate velocity and acceleration from your measurements") >>,
        80)

mock_data ==
    [circuits |-> mock_circuits, chemistry |-> mock_chemistry, physics |-> mock_physics]

\* as _mock_analysis, indexing mock_data without a default: a KeyError
_mock_analysis_no_default(type) ==
    IF type \in DOMAIN mock_data THEN mock_data[type] ELSE <<"raise", "KeyError">>

_mock_analysis(type) ==
    IF type \in DOMAIN mock_data THEN mock_data[type] ELSE mock_data["circuits"]

----------------------------------------------------------------------------
(* Texts.  A text is a sequence of units.  A unit is one character         *)
(* (tag "ch"), or a whole JSON literal: a quoted string ("str"), a         *)
(* number ("num") or the word null ("lit").  The slices the parser takes   *)
(* (text[7:], text[3:], text[:-3]) follow a startswith/endswith test that  *)
(* has matched exactly that many one-character units, and strip() removes  *)
(* whitespace characters only, so no slice ever cuts a literal.            *)

Ch(c) == <<"ch", c>>
StrLit(s) == <<"str", s>>
NumLit(n) == <<"num", n>>
NullLit == <<"lit", "null">>

Chars(s) == [i \in 1..Len(s) |-> Ch(s[i])]

Whitespace == {Ch(" "), Ch("\n")}

\* str.strip()
RECURSIVE lstrip(_)
lstrip(s) == IF s # <<>> /\ Head(s) \in Whitespace THEN lstrip(Tail(s)) ELSE s

RECURSIVE rstrip(_)
rstrip(s) ==
    IF s # <<>> /\ s[Len(s)] \in Whitespace THEN rstrip(SubSeq(s, 1, Len(s) - 1)) ELSE s

strip(s) == rstrip(lstrip(s))

\* str.startswith / str.endswith
startswith(s, prefix) ==
    Len(s) >= Len(prefix) /\ SubSeq(s, 1, Len(prefix)) = prefix

endswith(s, suffix) ==
    Len(s) >= Len(suffix) /\ SubSeq(s, Len(s) - Len(suffix) + 1, Len(s)) = suffix

\* s[n:] and s[:-n]
DropFirst(s, n) == SubSeq(s, n + 1, Len(s))
DropLast(s, n) == SubSeq(s, 1, Len(s) - n)

\* the backquote character (written by name: the lexer reads no backquote in a string)
Tick == "backquote"

Fence == Chars(<<Tick, Tick, Tick>>)
FenceJson == Chars(<<Tick, Tick, Tick, "j", "s", "o", "n">>)

----------------------------------------------------------------------------
(* json.loads: a recursive-descent decoder of the unit text.  A result is  *)
(* [ok, val, pos]: pos is the index of the first unit not consumed.        *)

DecodeFail == [ok |-> FALSE, val |-> JNull, pos |-> 0]
Decoded(val, pos) == [ok |-> TRUE, val |-> val, pos |-> pos]

RECURSIVE SkipWs(_, _)
SkipWs(s, i) == IF i <= Len(s) /\ s[i] \in Whitespace THEN SkipWs(s, i + 1) ELSE i

At(s, i, unit) == i <= Len(s) /\ s[i] = unit

RECURSIVE parse_value(_, _)
RECURSIVE parse_pairs(_, _, _)
RECURSIVE parse_items(_, _, _)

parse_value(s, i) ==
    LET j == SkipWs(s, i) IN
    IF j > Len(s) THEN DecodeFail
    ELSE IF TagOf(s[j]) = "str" THEN Decoded(JStr(ValOf(s[j])), j + 1)
    ELSE IF TagOf(s[j]) = "num" THEN Decoded(JNum(ValOf(s[j])), j + 1)
    ELSE IF TagOf(s[j]) = "lit" THEN Decoded(JNull, j + 1)
    ELSE IF s[j] = Ch("{") THEN
        LET e == SkipWs(s, j + 1) IN
        IF At(s, e, Ch("}")) THEN Decoded(JObj(EmptyMap), e + 1)
        ELSE parse_pairs(s, e, EmptyMap)
    ELSE IF s[j] = Ch("[") THEN
        LET e == SkipWs(s, j + 1) IN
        IF At(s, e, Ch("]")) THEN Decoded(JArr(<<>>), e + 1)
        ELSE parse_items(s, e, <<>>)
    ELSE DecodeFail

\* "key": value pairs up to the closing brace; a repeated key keeps the last value
parse_pairs(s, i, acc) ==
    LET j == SkipWs(s, i)
        c == SkipWs(s, j + 1)
    IN  IF j > Len(s) \/ TagOf(s[j]) # "str" THEN DecodeFail
        ELSE IF ~At(s, c, Ch(":")) THEN DecodeFail
        ELSE LET r == parse_value(s, c + 1) IN
             IF ~r.ok THEN DecodeFail
             ELSE LET e == SkipWs(s, r.pos)
                      acc2 == (ValOf(s[j]) :> r.val) @@ acc
                  IN  IF At(s, e, Ch("}")) THEN Decoded(JObj(acc2), e + 1)
                      ELSE IF At(s, e, Ch(",")) THEN parse_pairs(s, e + 1, acc2)
                      ELSE DecodeFail

\* items up to the closing bracket
parse_items(s, i, acc) ==
    LET r == parse_value(s, i) IN
    IF ~r.ok THEN DecodeFail
    ELSE LET e == SkipWs(s, r.pos)
             acc2 == Append(acc, r.val)
         IN  IF At(s, e, Ch("]")) THEN Decoded(JArr(acc2), e + 1)
             ELSE IF At(s, e, Ch(",")) THEN parse_items(s, e + 1, acc2)
             ELSE DecodeFail

\* json.loads(s): one value and nothing but whitespace after it, else JSONDecodeError
json_loads(s) ==
    LET r == parse_value(s, 1) IN
    IF r.ok /\ SkipWs(s, r.pos) > Len(s) THEN r ELSE DecodeFail

\* json.dumps(value): the text of a value, with ", " and ": " separators
RECURSIVE json_dumps(_)
RECURSIVE dumps_pairs(_, _)
RECURSIVE dumps_items(_)

json_dumps(x) ==
    IF TagOf(x) = "str" THEN <<StrLit(ValOf(x))>>
    ELSE IF TagOf(x) = "num" THEN <<NumLit(ValOf(x))>>
    ELSE IF TagOf(x) = "null" THEN <<NullLit>>
    ELSE IF TagOf(x) = "arr" THEN <<Ch("[")>> \o dumps_items(ValOf(x)) \o <<Ch("]")>>
    ELSE <<Ch("{")>> \o dumps_pairs(ValOf(x), DOMAIN ValOf(x)) \o <<Ch("}")>>

dumps_items(a) ==
    IF Len(a) = 0 THEN <<>>
    ELSE IF Len(a) = 1 THEN json_dumps(a[1])
    ELSE json_dumps(a[1]) \o <<Ch(","), Ch(" ")>> \o dumps_items(Tail(a))

dumps_pairs(f, keys) ==
    IF keys = {} THEN <<>>
    ELSE LET key == CHOOSE x \in keys : TRUE
             pair == <<StrLit(key), Ch(":"), Ch(" ")>> \o json_dumps(f[key])
         IN  IF keys = {key} THEN pair
             ELSE pair \o <<Ch(","), Ch(" ")>> \o dumps_pairs(f, keys \ {key})

----------------------------------------------------------------------------
(* Python's "key in x" and "x[key] = value" on a decoded value *)

Raised(e) == <<"raise", e>>

OptionalKeys == {"safety_warnings", "guidance", "confidence_score"}

\* a string that names the three optional keys
AllKeysText == "safety_warnings, guidance, confidence_score"

\* "key in s" for a string s is a substring test; tabulated for the keys the
\* parser asks about and the string values of this model
str_contains(s, key) ==
    \/ s = key
    \/ s = AllKeysText /\ key \in OptionalKeys

\* key in x; a TypeError for a number or None
py_contains(x, key) ==
    IF TagOf(x) = "obj" THEN key \in DOMAIN ValOf(x)
    ELSE IF TagOf(x) = "arr" THEN \E i \in 1..Len(ValOf(x)) : ValOf(x)[i] = JStr(key)
    ELSE TagOf(x) = "str" /\ str_contains(ValOf(x), key)

\* as set_default, but testing "if not analysis.get(key)": a present key with a
\* falsy value (None, 0, an empty list) is overwritten
set_default_falsy(analysis, key, default) ==
    IF TagOf(analysis) = "raise" THEN analysis
    ELSE IF TagOf(analysis) # "obj" THEN Raised("AttributeError")
    ELSE IF key \in DOMAIN ValOf(analysis)
            /\ ValOf(analysis)[key] \notin {JNull, JNum(0), JArr(<<>>)} THEN analysis
    ELSE JObj((key :> default) @@ ValOf(analysis))

\* if key not in analysis: analysis[key] = default
\* (item assignment is a TypeError for a list with a string index, and for a string)
set_default(analysis, key, default) ==
    IF TagOf(analysis) = "raise" THEN analysis
    ELSE IF TagOf(analysis) \in {"num", "null"} THEN Raised("TypeError")
    ELSE IF py_contains(analysis, key) THEN analysis
    ELSE IF TagOf(analysis) = "obj" THEN JObj((key :> default) @@ ValOf(analysis))
    ELSE Raised("TypeError")

----------------------------------------------------------------------------
(* _parse_ai_response.  The result records how the call ended (status),    *)
(* the value returned, whether it is the decoded analysis or the mock      *)
(* (source), and the value json.loads gave (decoded).                      *)

NotDecoded == [ok |-> FALSE, val |-> JNull]

\* as clean_response, without the test for the json tag
clean_response_no_tag(response_text) ==
    LET t1 == strip(response_text)
        t3 == IF startswith(t1, Fence) THEN DropFirst(t1, 3) ELSE t1
        t4 == IF endswith(t3, Fence) THEN DropLast(t3, 3) ELSE t3
    IN  strip(t4)

\* lines 127-134: strip, drop the fences, strip
clean_response(response_text) ==
    LET t1 == strip(response_text)
        t2 == IF startswith(t1, FenceJson) THEN DropFirst(t1, 7) ELSE t1
        t3 == IF startswith(t2, Fence) THEN DropFirst(t2, 3) ELSE t2
        t4 == IF endswith(t3, Fence) THEN DropLast(t3, 3) ELSE t3
    IN  strip(t4)

\* as apply_defaults, without the default of confidence_score
apply_defaults_no_confidence(analysis) ==
    set_default(set_default(analysis, "safety_warnings", JArr(<<>>)), "guidance", JArr(<<>>))

\* as apply_defaults, without the default of guidance
apply_defaults_no_guidance(analysis) ==
    set_default(set_default(analysis, "safety_warnings", JArr(<<>>)),
                "confidence_score", JNum(80))

\* lines 138-143
apply_defaults(analysis) ==
    set_default(
        set_default(
            set_default(analysis, "safety_warnings", JArr(<<>>)),
            "guidance", JArr(<<>>)),
        "confidence_score", JNum(80))

_parse_ai_response(response_text, type) ==
    LET d == json_loads(clean_response(response_text))
        analysis == apply_defaults(d.val)
    IN  IF ~d.ok THEN
            \* except json.JSONDecodeError
            [status |-> "return", value |-> _mock_analysis(type), source |-> "mock",
             decoded |-> NotDecoded]
        ELSE IF TagOf(analysis) = "raise" THEN
            [status |-> "raise", value |-> JNull, source |-> "none",
             decoded |-> [ok |-> TRUE, val |-> d.val]]
        ELSE
            [status |-> "return", value |-> analysis, source |-> "parser",
             decoded |-> [ok |-> TRUE, val |-> d.val]]

----------------------------------------------------------------------------
(* _build_analysis_prompt: the three blocks of the prompt *)

PromptTypes == {"circuits", "chemistry", "physics", "general"}

_build_analysis_prompt(type) ==
    <<"base_prompt", IF type \in PromptTypes THEN type ELSE "general", "json_format">>

----------------------------------------------------------------------------
(* Image data.  A string is given by whether it starts with 'data:image'   *)
(* and by its comma-separated segments: "header" is the data-URL header,   *)
(* "b64" a base64 payload, "badpad" a payload b64decode rejects            *)
(* (binascii.Error: incorrect padding).  NoImage, without segments, is no  *)
(* string at all (None): startswith is an AttributeError.                  *)

Image(scheme, segments) == [scheme |-> scheme, segments |-> segments]

ImageInputs ==
    { Image(FALSE, <<"b64">>),
      Image(FALSE, <<"badpad">>),
      Image(TRUE, <<"header", "b64">>),
      Image(TRUE, <<"header">>) }

NoImage == Image(FALSE, <<>>)

\* lines 26-29: the bytes of the image, or the exception raised
decode_image(img) ==
    IF img.segments = <<>> THEN [ok |-> FALSE, what |-> "AttributeError"]
    ELSE IF img.scheme /\ Len(img.segments) < 2 THEN [ok |-> FALSE, what |-> "IndexError"]
    ELSE LET payload == IF img.scheme THEN img.segments[2] ELSE img.segments[1] IN
         IF payload = "b64" THEN [ok |-> TRUE, what |-> "image_bytes"]
         ELSE [ok |-> FALSE, what |-> "binascii.Error"]

----------------------------------------------------------------------------
(* Inputs: experiment types, and what the generative model may reply *)

MaxPad == 1
MaxInvocations == 2

Domains == {"circuits", "chemistry", "physics", "general", "unknown-domain"}

Without(obj, keys) == JObj([k \in DOMAIN ValOf(obj) \ keys |-> ValOf(obj)[k]])
With(obj, key, val) == JObj((key :> val) @@ ValOf(obj))

FullAnalysis ==
    Analysis("A breadboard with an LED",
             << Component("LED", [color |-> JStr("red")], "center", <<"battery">>) >>,
             "The LED lights up",
             << Warning("low", "Loose wire", "Fasten it") >>,
             << Step(1, "Check polarity"), Step(2, "Connect the battery") >>,
             95)

\* JSON objects a model may return: complete, incomplete, and with values
\* outside the schema
ObjectValues ==
    { FullAnalysis,
      JObj(EmptyMap),
      Without(FullAnalysis, {"safety_warnings"}),
      Without(FullAnalysis, {"guidance"}),
      Without(FullAnalysis, {"confidence_score"}),
      Without(FullAnalysis, {"components"}),
      With(FullAnalysis, "confidence_score", Whole(5)),
      With(FullAnalysis, "confidence_score", JNum(0)),
      With(FullAnalysis, "safety_warnings", JArr(<< Warning("extreme", "Fire", "Run") >>)),
      With(FullAnalysis, "guidance", JArr(<< Step(2, "Second"), Step(1, "First") >>)),
      With(FullAnalysis, "guidance", JNull),
      JObj([guidance |-> JNull]) }

\* valid JSON that is not an object
OtherValues ==
    { StrList(<<"safety_warnings", "guidance", "confidence_score">>),
      StrList(<<"safety_warnings">>),
      JArr(<<>>),
      JStr(AllKeysText),
      JStr("LED"),
      Whole(42),
      JNull }

\* texts that are no JSON: empty, prose, an unclosed object, two objects
GarbageTexts ==
    { <<>>,
      Chars(<<"s", "o">>),
      <<Ch("{")>>,
      <<Ch("{"), StrLit("guidance"), Ch(":")>>,
      <<Ch("{"), Ch("}"), Ch(" "), Ch("{"), Ch("}")>> }

Bodies ==
    { [json |-> TRUE, value |-> x, text |-> json_dumps(x)] : x \in ObjectValues \cup OtherValues }
    \cup { [json |-> FALSE, value |-> JNull, text |-> g] : g \in GarbageTexts }

Newline == <<Ch("\n")>>
Opens ==
    { <<>>, Fence, Fence \o Newline, FenceJson, FenceJson \o Newline,
      Fence \o Chars(<<"j", "s">>) \o Newline }
Closes == { <<>>, Fence, Newline \o Fence }

Pad(n, c) == [i \in 1..n |-> Ch(c)]

\* a wrapper: an opening and a closing marker and n whitespace characters around
Wrappers == [open : Opens, close : Closes, pad : 0..MaxPad]
Wrap(w, text) == Pad(w.pad, " ") \o w.open \o text \o w.close \o Pad(w.pad, "\n")

\* generate_content raises (or response.text does), or the response has a text
Replies ==
    { [kind |-> "error"] }
    \cup { [kind |-> "text", body |-> b, wrap |-> w, text |-> Wrap(w, b.text)] :
             b \in Bodies, w \in Wrappers }

NoReply == [kind |-> "none"]
NoRequest == [sent |-> FALSE]

----------------------------------------------------------------------------
(* analyze_image *)

NotParsed == [status |-> "none", value |-> JNull, source |-> "none", decoded |-> NotDecoded]

NoCall ==
    [status |-> "none", value |-> JNull, source |-> "none", stages |-> <<>>,
     parsed |-> NotParsed]

Pending(stages) ==
    [status |-> "pending", value |-> JNull, source |-> "none", stages |-> stages,
     parsed |-> NotParsed]

Returned(value, source, stages, parsed) ==
    [status |-> "return", value |-> value, source |-> source, stages |-> stages,
     parsed |-> parsed]

Propagated(stages, parsed) ==
    [status |-> "raise", value |-> JNull, source |-> "none", stages |-> stages,
     parsed |-> parsed]

\* lines 25-36: up to the call of generate_content; an exception before it
\* is caught at line 44
_analyze_with_ai(img, type) ==
    LET image == decode_image(img) IN
    IF ~image.ok THEN
        [pc |-> "idle", request |-> NoRequest,
         outcome |-> Returned(_mock_analysis(type), "mock", <<"decode">>, NotParsed)]
    ELSE
        [pc |-> "waiting",
         request |-> [sent |-> TRUE, prompt |-> _build_analysis_prompt(type),
                      mime_type |-> "image/jpeg", data |-> image.what],
         outcome |-> Pending(<<"decode", "prompt", "invoke">>)]

\* as analyze_image, with the test of use_ai inverted
analyze_image_inverted(mode, img, type) ==
    IF ~mode THEN _analyze_with_ai(img, type)
    ELSE [pc |-> "idle", request |-> NoRequest,
          outcome |-> Returned(_mock_analysis(type), "mock", <<>>, NotParsed)]

\* lines 18-22
analyze_image(mode, img, type) ==
    IF mode THEN _analyze_with_ai(img, type)
    ELSE [pc |-> "idle", request |-> NoRequest,
          outcome |-> Returned(_mock_analysis(type), "mock", <<>>, NotParsed)]

\* as _analyze_with_ai_reply, catching json.JSONDecodeError only: an exception
\* of _parse_ai_response leaves analyze_image
_analyze_with_ai_reply_narrow(r, type, stages) ==
    IF r.kind = "error" THEN
        Returned(_mock_analysis(type), "mock", stages, NotParsed)
    ELSE
        LET p == _parse_ai_response(r.text, type) IN
        IF p.status = "raise" THEN Propagated(Append(stages, "parse"), p)
        ELSE Returned(p.value, p.source, Append(stages, "parse"), p)

\* lines 33-46: from the return of generate_content on
_analyze_with_ai_reply(r, type, stages) ==
    IF r.kind = "error" THEN
        Returned(_mock_analysis(type), "mock", stages, NotParsed)
    ELSE
        LET p == _parse_ai_response(r.text, type) IN
        IF p.status = "raise" THEN
            \* except Exception
            Returned(_mock_analysis(type), "mock", Append(stages, "parse"), p)
        ELSE
            Returned(p.value, p.source, Append(stages, "parse"), p)

----------------------------------------------------------------------------
(* backend/database.py.  An operation ends with the identifier of the row  *)
(* it inserted, or with the exception it raised (and re-raised).  storage  *)
(* tells whether the insert of the storage service succeeds.               *)

DbOk(id) == [ok |-> TRUE, what |-> id]
DbRaised(e) == [ok |-> FALSE, what |-> e]

\* len(x): a TypeError for a number or None
HasLen(x) == TagOf(x) \in {"arr", "str", "obj"}

\* x.get(key, default) of a dict
dict_get(x, key, default) == IF key \in DOMAIN ValOf(x) THEN ValOf(x)[key] ELSE default

\* Database.create_analysis_session
create_analysis_session(experiment_id, img, analysis_result, storage) ==
    IF img = NoImage THEN DbRaised("TypeError")
    ELSE IF TagOf(analysis_result) # "obj" THEN DbRaised("AttributeError")
    ELSE IF ~HasLen(dict_get(analysis_result, "components", JArr(<<>>))) THEN DbRaised("TypeError")
    ELSE IF ~storage THEN DbRaised("storage_error")
    ELSE DbOk("session_id")

\* Database.create_component
create_component(session_id, component, storage) ==
    IF TagOf(component) # "obj" THEN DbRaised("AttributeError")
    ELSE IF ~storage THEN DbRaised("storage_error")
    ELSE DbOk("component_id")

DbCall(op, result) == [op |-> op, ok |-> result.ok, what |-> result.what]

----------------------------------------------------------------------------
(* backend/app.py: analyze_experiment *)

\* the body of a request: None, or a dict with the keys of present
Body(is_none, present, img, type) ==
    [is_none |-> is_none, present |-> present, image_data |-> img, experiment_type |-> type]

NoData == Body(TRUE, {}, NoImage, "")

RequestData ==
    { NoData, Body(FALSE, {}, NoImage, "") }
    \cup { Body(FALSE, {"experiment_id", "experiment_type"}, NoImage, type) : type \in Domains }
    \cup { Body(FALSE, {"experiment_id", "image_data"}, img, "") : img \in ImageInputs }
    \cup { Body(FALSE, {"experiment_id", "image_data", "experiment_type"}, img, type) :
             img \in ImageInputs, type \in Domains }

NoResponse == [code |-> 0]
PendingResponse == [code |-> 0, pending |-> TRUE]
Completed(session_id, analysis) ==
    [code |-> 200, session_id |-> session_id, status |-> "completed", analysis |-> analysis]
Failed(code, error) == [code |-> code, error |-> error]

\* as no_image_data, testing "not data" only
no_image_data_body_only(d) == d.is_none \/ d.present = {}

\* line 35: not data or 'image_data' not in data
no_image_data(d) == d.is_none \/ d.present = {} \/ "image_data" \notin d.present

\* line 39: data.get('experiment_type', 'general')
type_of(d) == IF "experiment_type" \in d.present THEN d.experiment_type ELSE "general"

\* line 50: analysis_result.get('components') is truthy
components_of(analysis_result) ==
    LET c == dict_get(analysis_result, "components", JNull) IN
    IF TagOf(c) = "arr" THEN ValOf(c) ELSE <<>>

\* lines 51-52: create_component for the components from the i-th on; fail_at is
\* the Database call at which the storage fails (0: at none)
RECURSIVE save_components(_, _, _, _)
save_components(components, i, fail_at, log) ==
    IF i > Len(components) THEN [ok |-> TRUE, what |-> "", log |-> log]
    ELSE LET r == create_component("session_id", components[i], fail_at # i + 1)
             log2 == Append(log, DbCall("create_component", r))
         IN  IF r.ok THEN save_components(components, i + 1, fail_at, log2)
             ELSE [ok |-> FALSE, what |-> r.what, log |-> log2]

\* lines 44-62: from the return of analyze_image on
persist_and_respond(d, analysis_result, fail_at) ==
    LET s == create_analysis_session("experiment_id", d.image_data, analysis_result, fail_at # 1)
        log == <<DbCall("create_analysis_session", s)>>
    IN  IF ~s.ok THEN [response |-> Failed(500, s.what), db_log |-> log]
        ELSE LET c == save_components(components_of(analysis_result), 1, fail_at, log) IN
             IF ~c.ok THEN [response |-> Failed(500, c.what), db_log |-> c.log]
             ELSE [response |-> Completed(s.what, analysis_result), db_log |-> c.log]

\* the number of Database calls a request with this analysis makes at most
DbCalls(analysis_result) ==
    IF TagOf(analysis_result) = "obj" THEN 1 + Len(components_of(analysis_result)) ELSE 1

Init ==
    /\ use_ai \in BOOLEAN
    /\ pc = "idle"
    /\ invocations = 0
    /\ experiment_type = ""
    /\ image_data = NoImage
    /\ previous_image = NoImage
    /\ request = NoRequest
    /\ reply = NoReply
    /\ outcome = NoCall
    /\ data = NoData
    /\ db_log = <<>>
    /\ response = NoResponse

\* a caller calls analyze_image(img, type)
AnalyzeImage ==
    /\ pc = "idle"
    /\ use_ai => invocations < MaxInvocations
    /\ \E img \in ImageInputs, type \in Domains :
         LET step == analyze_image(use_ai, img, type) IN
         /\ image_data' = img
         /\ previous_image' = image_data
         /\ experiment_type' = type
         /\ pc' = step.pc
         /\ request' = step.request
         /\ outcome' = step.outcome
         /\ invocations' = IF step.pc = "waiting" THEN invocations + 1 ELSE invocations
         /\ reply' = NoReply
    /\ UNCHANGED <<use_ai, api_vars>>

\* as GenerateContentReturns, invoking the model once more after a failure
GenerateContentReturns_retry ==
    /\ pc = "waiting"
    /\ \E r \in Replies :
         /\ reply' = r
         /\ IF r.kind = "error" /\ reply.kind # "error"
            THEN /\ pc' = "waiting"
                 /\ invocations' = invocations + 1
                 /\ outcome' = outcome
            ELSE /\ pc' = "idle"
                 /\ invocations' = invocations
                 /\ outcome' = _analyze_with_ai_reply(r, experiment_type, outcome.stages)
    /\ UNCHANGED <<use_ai, experiment_type, image_data, previous_image, request, api_vars>>

\* generate_content returns or raises, and the call finishes
GenerateContentReturns ==
    /\ pc = "waiting"
    /\ \E r \in Replies :
         /\ reply' = r
         /\ outcome' = _analyze_with_ai_reply(r, experiment_type, outcome.stages)
    /\ pc' = "idle"
    /\ UNCHANGED <<use_ai, invocations, experiment_type, image_data, previous_image, request,
                   api_vars>>

Next == AnalyzeImage \/ GenerateContentReturns

Spec == Init /\ [][Next]_vars

\* POST /api/analyze with the body d: lines 32-42, and lines 44-62 when
\* analyze_image returns without calling the model
AnalyzeExperiment ==
    /\ pc = "idle"
    /\ use_ai => invocations < MaxInvocations
    /\ \E d \in RequestData :
         /\ data' = d
         /\ IF no_image_data(d) THEN
                /\ response' = Failed(400, "No image data provided")
                /\ db_log' = <<>>
                /\ UNCHANGED analyzer_vars
            ELSE
                LET step == analyze_image(use_ai, d.image_data, type_of(d)) IN
                /\ image_data' = d.image_data
                /\ previous_image' = image_data
                /\ experiment_type' = type_of(d)
                /\ pc' = step.pc
                /\ request' = step.request
                /\ outcome' = step.outcome
                /\ invocations' = IF step.pc = "waiting" THEN invocations + 1 ELSE invocations
                /\ reply' = NoReply
                /\ UNCHANGED use_ai
                /\ IF step.pc = "waiting" THEN
                       /\ response' = PendingResponse
                       /\ db_log' = <<>>
                   ELSE
                       \E fail_at \in 0..DbCalls(step.outcome.value) :
                           LET end == persist_and_respond(d, step.outcome.value, fail_at) IN
                           /\ response' = end.response
                           /\ db_log' = end.db_log

\* the replies of the model inside a request: every body, bare or in a json fence
ApiWrappers ==
    { [open |-> <<>>, close |-> <<>>, pad |-> 0],
      [open |-> FenceJson \o Newline, close |-> Newline \o Fence, pad |-> 0] }
ApiReplies == { r \in Replies : r.kind = "error" \/ r.wrap \in ApiWrappers }

\* generate_content returns or raises inside a request, analyze_image returns
\* and the request goes on from line 44
AnalysisReturns ==
    /\ pc = "waiting"
    /\ \E r \in ApiReplies :
         LET out == _analyze_with_ai_reply(r, experiment_type, outcome.stages) IN
         /\ reply' = r
         /\ outcome' = out
         /\ \E fail_at \in 0..DbCalls(out.value) :
              LET end == persist_and_respond(data, out.value, fail_at) IN
              /\ response' = end.response
              /\ db_log' = end.db_log
    /\ pc' = "idle"
    /\ UNCHANGED <<use_ai, invocations, experiment_type, image_data, previous_image, request,
                   data>>

ApiNext == AnalyzeExperiment \/ AnalysisReturns

ApiSpec == Init /\ [][ApiNext]_vars

----------------------------------------------------------------------------
(* The AnalysisResult schema of the specification (its section 3) *)

ResultKeys ==
    {"observations", "components", "predicted_outcome", "safety_warnings", "guidance",
     "confidence_score"}

Severities == {"low", "medium", "high", "critical"}

KnownTypes == {"circuits", "chemistry", "physics"}

IsObject(x) == TagOf(x) = "obj"
HasKey(x, key) == IsObject(x) /\ key \in DOMAIN ValOf(x)
Field(x, key) == ValOf(x)[key]
IsList(x) == TagOf(x) = "arr"

\* confidence_score is a number in [0, 1]
ConfidenceInRange(x) ==
    /\ HasKey(x, "confidence_score")
    /\ TagOf(Field(x, "confidence_score")) = "num"
    /\ ValOf(Field(x, "confidence_score")) \in 0..100

\* every warning has a severity of the enumeration
SeveritiesValid(x) ==
    /\ HasKey(x, "safety_warnings")
    /\ IsList(Field(x, "safety_warnings"))
    /\ \A i \in 1..Len(ValOf(Field(x, "safety_warnings"))) :
         LET w == ValOf(Field(x, "safety_warnings"))[i] IN
         /\ HasKey(w, "severity")
         /\ \E sev \in Severities : Field(w, "severity") = JStr(sev)

\* the steps are numbered 1..N in order
StepsConsecutive(x) ==
    /\ HasKey(x, "guidance")
    /\ IsList(Field(x, "guidance"))
    /\ \A i \in 1..Len(ValOf(Field(x, "guidance"))) :
         LET g == ValOf(Field(x, "guidance"))[i] IN
         HasKey(g, "step") /\ Field(g, "step") = Whole(i)

SchemaValid(x) ==
    /\ IsObject(x)
    /\ ResultKeys \subseteq DOMAIN ValOf(x)
    /\ IsList(Field(x, "components"))
    /\ ConfidenceInRange(x)
    /\ SeveritiesValid(x)
    /\ StepsConsecutive(x)

Called == outcome.status # "none"
Finished == pc = "idle" /\ Called

\* the latest call reached the model and the model replied
Replied == Finished /\ reply.kind # "none"

\* the value json.loads gave in the latest call, when it gave one
DecodedOk == outcome.parsed.decoded.ok
DecodedValue == outcome.parsed.decoded.val
DecodedObject == DecodedOk /\ IsObject(DecodedValue)

----------------------------------------------------------------------------
(* C1: analyze_image returns a result to its caller in every case and      *)
(* never lets an exception out: whatever the image, the experiment type    *)
(* and the model do (no credential, image decoding failure, invocation     *)
(* failure, any raw text, valid JSON that is no object included).          *)
C1_NeverPropagates ==
    /\ outcome.status # "raise"
    /\ Finished => outcome.status = "return"

\* the parser raised a TypeError on valid JSON that is no object, and the call returned
C1_Witness ==
    /\ Finished
    /\ outcome.parsed.status = "raise"
    /\ DecodedOk /\ ~IsObject(DecodedValue)
    /\ outcome.status = "return"

(* C2, as claimed: whatever text the model returns, the result of          *)
(* analyze_image is a fully schema-valid AnalysisResult: six fields,       *)
(* confidence_score in [0,1], severities of the enumeration, steps         *)
(* numbered consecutively from 1.                                          *)
C2_AlwaysSchemaValid ==
    Finished => SchemaValid(outcome.value)

(* C2, amended: a result that is the fallback is fully schema-valid; a     *)
(* result that is the decoded model text contains the three keys           *)
(* safety_warnings, guidance and confidence_score, and is otherwise what   *)
(* the model supplied.                                                     *)
C2_ValidWhenFallback ==
    Finished =>
        /\ outcome.source \in {"mock", "parser"}
        /\ outcome.source = "mock" => SchemaValid(outcome.value)
        /\ outcome.source = "parser" =>
             /\ \A key \in OptionalKeys : py_contains(outcome.value, key)
             /\ DecodedOk
             /\ IsObject(DecodedValue) =>
                  \A key \in DOMAIN ValOf(DecodedValue) :
                     Field(outcome.value, key) = Field(DecodedValue, key)

\* the model's text decoded to an object and the result is not schema-valid
C2_Witness ==
    /\ Finished
    /\ outcome.source = "parser"
    /\ IsObject(outcome.value)
    /\ ~SchemaValid(outcome.value)

(* C3: in model-backed mode, whenever the invocation fails or the raw text *)
(* cannot be decoded as a structured object, analyze_image returns exactly *)
(* the fallback result of the same experiment type.                        *)
C3_FallbackOnFailure ==
    (use_ai /\ Replied /\ (reply.kind = "error" \/ ~DecodedObject)) =>
        /\ outcome.source = "mock"
        /\ outcome.value = _mock_analysis(experiment_type)

(* C4: without a credential analyze_image returns the fallback of the      *)
(* experiment type directly, for any image, valid or not: no image is      *)
(* decoded, no prompt built, no model invoked; for circuits the result has *)
(* confidence 0.85, 2 components, 2 warnings and 7 steps.  The mode is     *)
(* never changed by a call.                                                *)
C4_MockModeDirect ==
    /\ [](~use_ai /\ Called =>
            /\ outcome = Returned(_mock_analysis(experiment_type), "mock", <<>>, NotParsed)
            /\ pc = "idle" /\ request = NoRequest /\ reply = NoReply /\ invocations = 0
            /\ experiment_type = "circuits" =>
                 /\ Field(outcome.value, "confidence_score") = JNum(85)
                 /\ Len(ValOf(Field(outcome.value, "components"))) = 2
                 /\ Len(ValOf(Field(outcome.value, "safety_warnings"))) = 2
                 /\ Len(ValOf(Field(outcome.value, "guidance"))) = 7)
    /\ [][use_ai' = use_ai]_vars

\* a call in mock mode for circuits with an image that cannot be decoded
C4_Witness ==
    /\ ~use_ai
    /\ Finished
    /\ experiment_type = "circuits"
    /\ ~decode_image(image_data).ok
    /\ Field(outcome.value, "confidence_score") = JNum(85)

(* C5: the fallback generator returns a result for every experiment type,  *)
(* and for every type other than circuits, chemistry and physics (general  *)
(* and unrecognized strings included) the result of circuits.              *)
C5_FallbackTotal ==
    (Finished /\ outcome.source = "mock") =>
        /\ IsObject(outcome.value)
        /\ experiment_type \notin KnownTypes => outcome.value = mock_data["circuits"]
        /\ experiment_type \in KnownTypes => outcome.value = mock_data[experiment_type]

\* a fallback for an unrecognized type
C5_Witness ==
    /\ Finished
    /\ outcome.source = "mock"
    /\ experiment_type = "unknown-domain"
    /\ outcome.value = mock_data["circuits"]

(* C6: for circuits, chemistry and physics the fallback result has a       *)
(* confidence_score in [0,1], warnings with a severity of the enumeration  *)
(* and guidance steps numbered 1..N in order, without gap or repeat.       *)
C6_FallbackWellFormed ==
    (Finished /\ outcome.source = "mock" /\ experiment_type \in KnownTypes) =>
        /\ ConfidenceInRange(outcome.value)
        /\ SeveritiesValid(outcome.value)
        /\ StepsConsecutive(outcome.value)

\* a fallback for physics, with its five steps
C6_Witness ==
    /\ Finished
    /\ outcome.source = "mock"
    /\ experiment_type = "physics"
    /\ Len(ValOf(Field(outcome.value, "guidance"))) = 5

----------------------------------------------------------------------------
(* Fences, for C7: the model wrapped a JSON object in a code fence *)

TaggedOpens == { FenceJson, FenceJson \o Newline, Fence \o Chars(<<"j", "s">>) \o Newline }
JsonOrPlainOpens == { Fence, Fence \o Newline, FenceJson, FenceJson \o Newline }
FenceCloses == { Fence, Newline \o Fence }

RepliedObject == Replied /\ reply.kind = "text" /\ reply.body.json /\ IsObject(reply.body.value)

\* what the parser gives for the text of the reply's body, unwrapped
Unwrapped == _parse_ai_response(reply.body.text, experiment_type)

(* C7, as claimed: the parser gives for a decodable structured text in a   *)
(* code fence (an opening fence with any language tag or none, a closing   *)
(* fence, optional whitespace around) what it gives for the text unwrapped.*)
C7_AnyFence ==
    (RepliedObject
        /\ reply.wrap.open \in TaggedOpens \cup JsonOrPlainOpens
        /\ reply.wrap.close \in FenceCloses) =>
        outcome.parsed = Unwrapped

(* C7, amended: the parser gives for a decodable structured text in a code *)
(* fence whose opening fence has the language tag json or no tag (a        *)
(* closing fence, optional whitespace around) what it gives for the text   *)
(* unwrapped.                                                              *)
C7_JsonFence ==
    (RepliedObject
        /\ reply.wrap.open \in JsonOrPlainOpens
        /\ reply.wrap.close \in FenceCloses) =>
        /\ outcome.parsed = Unwrapped
        /\ outcome.parsed.source = "parser"
        /\ DecodedValue = reply.body.value

\* a complete analysis in a json fence with newlines and whitespace around
C7_Witness ==
    /\ RepliedObject
    /\ reply.body.value = FullAnalysis
    /\ reply.wrap = [open |-> FenceJson \o Newline, close |-> Newline \o Fence, pad |-> 1]
    /\ outcome.source = "parser"
    /\ outcome.value = FullAnalysis

(* C8: for every decoded object the parser sets safety_warnings to an      *)
(* empty sequence, guidance to an empty sequence and confidence_score to   *)
(* 0.8 exactly when the key is missing, and leaves every key present in    *)
(* the input, those three included, whatever its value, unchanged.         *)
DefaultOf(key) == IF key = "confidence_score" THEN JNum(80) ELSE JArr(<<>>)

C8_DefaultsOnlyWhenMissing ==
    (Replied /\ DecodedObject) =>
        /\ outcome.parsed.status = "return"
        /\ outcome.parsed.source = "parser"
        /\ IsObject(outcome.parsed.value)
        /\ DOMAIN ValOf(outcome.parsed.value) = DOMAIN ValOf(DecodedValue) \cup OptionalKeys
        /\ \A key \in DOMAIN ValOf(DecodedValue) :
             Field(outcome.parsed.value, key) = Field(DecodedValue, key)
        /\ \A key \in OptionalKeys \ DOMAIN ValOf(DecodedValue) :
             Field(outcome.parsed.value, key) = DefaultOf(key)

\* guidance present with the value null is kept; the two missing keys are defaulted
C8_Witness ==
    /\ Replied
    /\ DecodedValue = JObj([guidance |-> JNull])
    /\ outcome.parsed.value =
         JObj([guidance |-> JNull, safety_warnings |-> JArr(<<>>),
               confidence_score |-> JNum(80)])

(* C9, as claimed: in every result the parser produces from decodable      *)
(* model text, components, safety_warnings and guidance are all present.   *)
C9_SequenceFieldsPresent ==
    (Replied /\ outcome.parsed.source = "parser") =>
        \A key \in {"components", "safety_warnings", "guidance"} :
            HasKey(outcome.parsed.value, key)

(* C9, amended: every result the parser produces from decodable model text *)
(* contains safety_warnings and guidance (for a decoded object: as keys,   *)
(* with an empty sequence when the model omitted them); components is      *)
(* present only when the model supplied it.                                *)
C9_WarningsAndGuidancePresent ==
    (Replied /\ outcome.parsed.source = "parser") =>
        /\ py_contains(outcome.parsed.value, "safety_warnings")
        /\ py_contains(outcome.parsed.value, "guidance")
        /\ DecodedObject =>
             /\ HasKey(outcome.parsed.value, "safety_warnings")
             /\ HasKey(outcome.parsed.value, "guidance")
             /\ \A key \in {"safety_warnings", "guidance"} \ DOMAIN ValOf(DecodedValue) :
                  Field(outcome.parsed.value, key) = JArr(<<>>)
             /\ HasKey(outcome.parsed.value, "components") <=> HasKey(DecodedValue, "components")

\* the model returned {}: warnings and guidance are empty, components is absent
C9_Witness ==
    /\ Replied
    /\ DecodedValue = JObj(EmptyMap)
    /\ outcome.parsed.source = "parser"
    /\ Field(outcome.parsed.value, "guidance") = JArr(<<>>)
    /\ Field(outcome.parsed.value, "safety_warnings") = JArr(<<>>)
    /\ ~HasKey(outcome.parsed.value, "components")

(* C10: in model-backed mode a call of analyze_image invokes the model at  *)
(* most once: a failed invocation leads straight to the fallback, without  *)
(* retry, and no earlier result is reused: every call with a decodable     *)
(* image, the image of the call before included, makes its own invocation, *)
(* and every other call falls back.                                        *)
C10_OneInvocationPerCall ==
    [][ /\ pc = "waiting" =>
             /\ pc' = "idle"
             /\ invocations' = invocations
             /\ reply'.kind = "error" =>
                  outcome' = Returned(_mock_analysis(experiment_type), "mock",
                                      <<"decode", "prompt", "invoke">>, NotParsed)
        /\ (pc = "idle" /\ use_ai /\ decode_image(image_data').ok) =>
             /\ pc' = "waiting"
             /\ invocations' = invocations + 1
             /\ outcome'.status = "pending"
             /\ request'.sent
        /\ (pc = "idle" /\ use_ai /\ ~decode_image(image_data').ok) =>
             /\ pc' = "idle"
             /\ invocations' = invocations
             /\ outcome'.source = "mock"
      ]_vars

\* the second of two calls with the same image made an invocation of its own, which
\* failed, and the call fell back
C10_Witness ==
    /\ use_ai
    /\ Finished
    /\ previous_image = image_data
    /\ invocations = 2
    /\ reply.kind = "error"
    /\ outcome.value = _mock_analysis(experiment_type)

----------------------------------------------------------------------------
(* Requests to /api/analyze, for C11 and C12 *)

\* the latest request has been answered
RequestDone == response.code # 0

\* the body of the latest request has no image payload
PayloadMissing == data.is_none \/ "image_data" \notin data.present

\* the storage service failed in a Database call of the latest request
StorageFailed == \E i \in 1..Len(db_log) : db_log[i].what = "storage_error"

\* the latest request reached the model, and the invocation failed or its text
\* did not decode to an object
ModelFailedOrUnparsable ==
    /\ ~PayloadMissing
    /\ Replied
    /\ reply.kind = "error" \/ ~DecodedObject

C12_FailureOnlyFromInputOrPersistence ==
    RequestDone =>
        /\ response.code = 400 => PayloadMissing
        /\ response.code = 500 => db_log # <<>> /\ ~db_log[Len(db_log)].ok
        /\ (ModelFailedOrUnparsable /\ ~StorageFailed) =>
             response = Completed("session_id", _mock_analysis(experiment_type))

====
